---- MODULE Spec2Model ----
(***************************************************************************)
(* Model of the todo backend's persistence and validation core:            *)
(*   - todo_backend/src/api/database.py: the module-level start-up checks  *)
(*     of SQLITE_DB and the get_db_connection / get_db connection scope;   *)
(*   - todo_backend/src/api/schemas.py: the TodoCreate and TodoUpdate      *)
(*     request schemas (pydantic field constraints).                       *)
(*                                                                         *)
(* Spec       is the connection manager (database.py).                     *)
(* SpecSchema is the schema validation (schemas.py).                       *)
(*                                                                         *)
(* The sqlite3 library is modelled by its documented behaviour: writes go  *)
(* to an open transaction (pending), commit() makes them durable,          *)
(* rollback() drops them, and close() on a connection with an open         *)
(* transaction drops them as well.  rollback() and close() themselves are  *)
(* taken not to fail.  Scopes run one after another (the source holds no   *)
(* threads); every scope has a connection of its own.                      *)
(***************************************************************************)
EXTENDS Integers, Sequences, FiniteSets, TLC

VARIABLES
    environ,        \* os.environ["SQLITE_DB"] before load_dotenv()
    dotenv,         \* the SQLITE_DB entry of the .env file
    SQLITE_DB_PATH, \* database.py:16, the module global
    module,         \* import state of database.py
    committed,      \* the durable content of the store (the database file)
    pending,        \* uncommitted writes of the open transaction
    conns,          \* every connection acquired so far, with its state
    conn,           \* get_db_connection's local `conn` (0 is None)
    pc,             \* position inside get_db_connection
    exc,            \* the exception in flight ("None" if none)
    via,            \* which entry point opened the scope
    calls,          \* commit/rollback/close calls made on `conn`, in order
    before,         \* committed content when the scope was entered
    wrote,          \* every write the body of the scope made
    bodyDone,       \* how the body of the scope ended
    storeErr,       \* the sqlite3.Error raised inside the scope, if any
    outcome,        \* how the last scope ended for its caller
    propagated,     \* the exception the caller of the last scope received
    validated       \* the last schema validation: schema, payload, result

vars == << environ, dotenv, SQLITE_DB_PATH, module, committed, pending, conns,
           conn, pc, exc, via, calls, before, wrote, bodyDone, storeErr,
           outcome, propagated, validated >>

dbVars == << environ, dotenv, SQLITE_DB_PATH, module, committed, pending,
             conns, conn, pc, exc, via, calls, before, wrote, bodyDone,
             storeErr, outcome, propagated >>

scopeVars == << committed, pending, conns, conn, pc, exc, via, calls, before,
                wrote, bodyDone, storeErr, outcome, propagated >>

configVars == << environ, dotenv, SQLITE_DB_PATH, module >>

----------------------------------------------------------------------------
(* Bounds of the model *)

MaxScopes == 3      \* connections acquired in one run
MaxVal == 1         \* cell values are 0..MaxVal

----------------------------------------------------------------------------
(* database.py, lines 12-22: start-up configuration *)

Unset == "<unset>"

\* Values the SQLITE_DB setting can take: unset, empty, a file that exists,
\* a file that does not.
Settings == { Unset, "", "todo.db", "gone.db" }

\* os.path.exists
exists(path) == path = "todo.db"

\* load_dotenv() (override=False): a variable already in the environment
\* wins, otherwise the .env entry is taken; then os.getenv("SQLITE_DB").
getenv_after_load_dotenv(env, file) == IF env # Unset THEN env ELSE file

\* `not SQLITE_DB_PATH`: None and "" are falsy
falsy(path) == path = Unset \/ path = ""

\* Line 18-22 under a mutation that leaves out the existence check.
LoadModule_noExistsCheck ==
    /\ module = "unloaded"
    /\ LET path == getenv_after_load_dotenv(environ, dotenv) IN
        /\ SQLITE_DB_PATH' = path
        /\ module' = IF falsy(path) THEN "ValueError" ELSE "loaded"
    /\ UNCHANGED << environ, dotenv, validated >>
    /\ UNCHANGED scopeVars

\* Importing database.py: lines 13-22.
LoadModule ==
    /\ module = "unloaded"
    /\ LET path == getenv_after_load_dotenv(environ, dotenv) IN
        /\ SQLITE_DB_PATH' = path
        /\ module' = IF falsy(path) THEN "ValueError"
                     ELSE IF ~exists(path) THEN "FileNotFoundError"
                     ELSE "loaded"
    /\ UNCHANGED << environ, dotenv, validated >>
    /\ UNCHANGED scopeVars

----------------------------------------------------------------------------
(* database.py, lines 25-73: the connection scope *)

Cells == { "title", "completed" }
Vals == 0 .. MaxVal

\* sqlite3.Error and its subclasses
StoreErrors == { "OperationalError", "IntegrityError" }
\* exceptions that are not sqlite3.Error
OtherErrors == { "HTTPException", "GeneratorExit" }

is_sqlite3_Error(e) == e \in StoreErrors

\* The content a statement on the connection sees: committed overlaid with
\* the transaction's own writes.
view(c, p) ==
    [ x \in Cells |->
        IF \E w \in p : w[1] = x THEN (CHOOSE w \in p : w[1] = x)[2] ELSE c[x] ]

\* cursor.execute of a write inside the scope
write(p, x, v) == { w \in p : w[1] # x } \cup { << x, v >> }

\* Line 41 succeeds: conn = sqlite3.connect(SQLITE_DB_PATH); line 43 yields.
\* get_db (line 72) enters the same scope and yields the same connection.
connect(entry) ==
    /\ module = "loaded"
    /\ pc = "idle"
    /\ Len(conns) < MaxScopes
    /\ conns' = Append(conns, "open")
    /\ conn' = Len(conns) + 1
    /\ pending' = {}
    /\ pc' = "body"
    /\ exc' = "None"
    /\ via' = entry
    /\ calls' = << >>
    /\ before' = committed
    /\ wrote' = {}
    /\ bodyDone' = "none"
    /\ storeErr' = "None"
    /\ outcome' = "none"
    /\ propagated' = "None"
    /\ UNCHANGED << committed, validated >>
    /\ UNCHANGED configVars

\* Line 41 raises: conn stays None and control goes to the except clause.
connect_raises(entry, e) ==
    /\ module = "loaded"
    /\ pc = "idle"
    /\ conn' = 0
    /\ pending' = {}
    /\ pc' = "except"
    /\ exc' = e
    /\ via' = entry
    /\ calls' = << >>
    /\ before' = committed
    /\ wrote' = {}
    /\ bodyDone' = "none"
    /\ storeErr' = "None"
    /\ outcome' = "none"
    /\ propagated' = "None"
    /\ UNCHANGED << committed, conns, validated >>
    /\ UNCHANGED configVars

\* execute on a connection in autocommit mode (isolation_level=None): the
\* write is durable at once.
execute_autocommit(x, v) ==
    /\ pc = "body"
    /\ committed' = [committed EXCEPT ![x] = v]
    /\ wrote' = write(wrote, x, v)
    /\ UNCHANGED << pending, conns, conn, pc, exc, via, calls, before,
                    bodyDone, storeErr, outcome, propagated, validated >>
    /\ UNCHANGED configVars

\* The body of the scope (the caller's code at the yield) writes a cell.
execute(x, v) ==
    /\ pc = "body"
    /\ pending' = write(pending, x, v)
    /\ wrote' = write(wrote, x, v)
    /\ UNCHANGED << committed, conns, conn, pc, exc, via, calls, before,
                    bodyDone, storeErr, outcome, propagated, validated >>
    /\ UNCHANGED configVars

\* The body completes and line 44 is missing: no commit before finally.
body_returns_noCommit ==
    /\ pc = "body"
    /\ pc' = "finally"
    /\ bodyDone' = "returned"
    /\ UNCHANGED << committed, pending, conns, conn, exc, via, calls, before,
                    wrote, storeErr, outcome, propagated, validated >>
    /\ UNCHANGED configVars

\* The body completes: the generator resumes after line 43.
body_returns ==
    /\ pc = "body"
    /\ pc' = "commit"
    /\ bodyDone' = "returned"
    /\ UNCHANGED << committed, pending, conns, conn, exc, via, calls, before,
                    wrote, storeErr, outcome, propagated, validated >>
    /\ UNCHANGED configVars

\* The body raises e: the exception is thrown into the generator at line 43;
\* line 45 catches it only if it is a sqlite3.Error, else only finally runs.
body_raises(e) ==
    /\ pc = "body"
    /\ exc' = e
    /\ bodyDone' = "raised"
    /\ storeErr' = IF is_sqlite3_Error(e) THEN e ELSE storeErr
    /\ pc' = IF is_sqlite3_Error(e) THEN "except" ELSE "finally"
    /\ UNCHANGED << committed, pending, conns, conn, via, calls, before,
                    wrote, outcome, propagated, validated >>
    /\ UNCHANGED configVars

\* Line 44: conn.commit() succeeds.
commit ==
    /\ pc = "commit"
    /\ committed' = view(committed, pending)
    /\ pending' = {}
    /\ calls' = Append(calls, "commit")
    /\ pc' = "finally"
    /\ UNCHANGED << conns, conn, exc, via, before, wrote, bodyDone, storeErr,
                    outcome, propagated, validated >>
    /\ UNCHANGED configVars

\* Line 44: conn.commit() raises a sqlite3.Error; nothing became durable and
\* the transaction is still open.
commit_raises(e) ==
    /\ pc = "commit"
    /\ calls' = Append(calls, "commit")
    /\ exc' = e
    /\ storeErr' = e
    /\ pc' = "except"
    /\ UNCHANGED << committed, pending, conns, conn, via, before, wrote,
                    bodyDone, outcome, propagated, validated >>
    /\ UNCHANGED configVars

\* The except clause without its `raise e`: the error is swallowed.
except_clause_swallows ==
    /\ pc = "except"
    /\ IF conn # 0
         THEN /\ pending' = {}
              /\ calls' = Append(calls, "rollback")
         ELSE UNCHANGED << pending, calls >>
    /\ pc' = "finally"
    /\ exc' = "None"
    /\ UNCHANGED << committed, conns, conn, via, before, wrote, bodyDone,
                    storeErr, outcome, propagated, validated >>
    /\ UNCHANGED configVars

\* Lines 45-48: except sqlite3.Error as e: if conn: conn.rollback(); raise e
except_clause ==
    /\ pc = "except"
    /\ IF conn # 0
         THEN /\ pending' = {}
              /\ calls' = Append(calls, "rollback")
         ELSE UNCHANGED << pending, calls >>
    /\ pc' = "finally"
    /\ UNCHANGED << committed, conns, conn, exc, via, before, wrote, bodyDone,
                    storeErr, outcome, propagated, validated >>
    /\ UNCHANGED configVars

\* A finally clause that commits before it closes.
finally_clause_commits ==
    /\ pc = "finally"
    /\ IF conn # 0
         THEN /\ conns' = [conns EXCEPT ![conn] = "closed"]
              /\ committed' = view(committed, pending)
              /\ pending' = {}
              /\ calls' = Append(calls, "close")
         ELSE UNCHANGED << conns, committed, pending, calls >>
    /\ pc' = "idle"
    /\ outcome' = IF exc = "None" THEN "returned" ELSE "raised"
    /\ propagated' = exc
    /\ exc' = "None"
    /\ UNCHANGED << conn, via, before, wrote, bodyDone, storeErr, validated >>
    /\ UNCHANGED configVars

\* A close placed after the commit instead of in a finally clause: it runs
\* only when no exception is in flight.
finally_clause_closeOnSuccessOnly ==
    /\ pc = "finally"
    /\ IF conn # 0 /\ exc = "None"
         THEN /\ conns' = [conns EXCEPT ![conn] = "closed"]
              /\ pending' = {}
              /\ calls' = Append(calls, "close")
         ELSE UNCHANGED << conns, pending, calls >>
    /\ pc' = "idle"
    /\ outcome' = IF exc = "None" THEN "returned" ELSE "raised"
    /\ propagated' = exc
    /\ exc' = "None"
    /\ UNCHANGED << committed, conn, via, before, wrote, bodyDone, storeErr,
                    validated >>
    /\ UNCHANGED configVars

\* Lines 49-51: finally: if conn: conn.close(); then the scope ends, either
\* normally or with the exception in flight reaching the caller.
finally_clause ==
    /\ pc = "finally"
    /\ IF conn # 0
         THEN /\ conns' = [conns EXCEPT ![conn] = "closed"]
              /\ pending' = {}
              /\ calls' = Append(calls, "close")
         ELSE UNCHANGED << conns, pending, calls >>
    /\ pc' = "idle"
    /\ outcome' = IF exc = "None" THEN "returned" ELSE "raised"
    /\ propagated' = exc
    /\ exc' = "None"
    /\ UNCHANGED << committed, conn, via, before, wrote, bodyDone, storeErr,
                    validated >>
    /\ UNCHANGED configVars

----------------------------------------------------------------------------
(* schemas.py: the request schemas.                                        *)
(* A string is known by what the field constraints read, its length, and   *)
(* by whether it is blank (empty or whitespace only).  A payload field is  *)
(* absent or holds a value of the field's declared type (str, bool, and    *)
(* null where the field is Optional); pydantic's type coercion and type    *)
(* errors are outside the model.                                           *)

Missing == [ kind |-> "missing" ]
None == [ kind |-> "null" ]
Str(n, b) == [ kind |-> "str", len |-> n, blank |-> b ]
Bool(v) == [ kind |-> "bool", val |-> v ]

TodoBase_title_min_length == 1
TodoBase_title_max_length == 500
TodoBase_description_max_length == 2000
TodoUpdate_title_min_length == 1
TodoUpdate_title_max_length == 500
TodoUpdate_description_max_length == 2000

\* pydantic's validation of one string field: a missing required field and
\* a null for a field that is not Optional are errors, a missing optional
\* field takes the default (which is not validated), a string must satisfy
\* min_length <= len <= max_length (min_length 0 where none is declared)
\* and is kept as it came (no stripping).
str_field(v, required, nullable, default, min_length, max_length) ==
    IF v = Missing THEN
        IF required THEN [ ok |-> FALSE, value |-> Missing ]
        ELSE [ ok |-> TRUE, value |-> default ]
    ELSE IF v = None THEN
        IF nullable THEN [ ok |-> TRUE, value |-> None ]
        ELSE [ ok |-> FALSE, value |-> Missing ]
    ELSE IF v.kind = "str" THEN
        IF min_length <= v.len /\ v.len <= max_length
        THEN [ ok |-> TRUE, value |-> v ]
        ELSE [ ok |-> FALSE, value |-> Missing ]
    ELSE [ ok |-> FALSE, value |-> Missing ]

\* pydantic's validation of one boolean field.
bool_field(v, nullable, default) ==
    IF v = Missing THEN [ ok |-> TRUE, value |-> default ]
    ELSE IF v = None THEN
        IF nullable THEN [ ok |-> TRUE, value |-> None ]
        ELSE [ ok |-> FALSE, value |-> Missing ]
    ELSE IF v.kind = "bool" THEN [ ok |-> TRUE, value |-> v ]
    ELSE [ ok |-> FALSE, value |-> Missing ]

\* title with the upper bound exclusive
TodoBase_title_exclusiveMax(v) ==
    str_field(v, TRUE, FALSE, Missing, TodoBase_title_min_length,
              TodoBase_title_max_length - 1)

\* schemas.py:12  title: str = Field(..., min_length=1, max_length=500)
TodoBase_title(v) ==
    str_field(v, TRUE, FALSE, Missing, TodoBase_title_min_length,
              TodoBase_title_max_length)

\* schemas.py:13  description: Optional[str] = Field(default="", max_length=2000)
TodoBase_description(v) ==
    str_field(v, FALSE, TRUE, Str(0, TRUE), 0,
              TodoBase_description_max_length)

\* schemas.py:14  completed: bool = Field(default=False)
TodoBase_completed(v) == bool_field(v, FALSE, Bool(FALSE))

\* schemas.py:42  title: Optional[str] = Field(None, min_length=1, max_length=500)
TodoUpdate_title(v) ==
    str_field(v, FALSE, TRUE, None, TodoUpdate_title_min_length,
              TodoUpdate_title_max_length)

\* description declared as in TodoBase, with default ""
TodoUpdate_description_defaultEmpty(v) ==
    str_field(v, FALSE, TRUE, Str(0, TRUE), 0,
              TodoUpdate_description_max_length)

\* schemas.py:43  description: Optional[str] = Field(None, max_length=2000)
TodoUpdate_description(v) ==
    str_field(v, FALSE, TRUE, None, 0,
              TodoUpdate_description_max_length)

\* schemas.py:44  completed: Optional[bool] = Field(None)
TodoUpdate_completed(v) == bool_field(v, TRUE, None)

FieldNames == { "title", "description", "completed" }

\* model_fields_set: the fields the payload supplied
fields_set(payload) == { f \in FieldNames : payload[f] # Missing }

\* The validated model, or the ValidationError, of a model of three fields.
model(payload, t, d, c) ==
    IF t.ok /\ d.ok /\ c.ok
    THEN [ ok |-> TRUE, title |-> t.value, description |-> d.value,
           completed |-> c.value, fields_set |-> fields_set(payload) ]
    ELSE [ ok |-> FALSE, title |-> Missing, description |-> Missing,
           completed |-> Missing, fields_set |-> {} ]

\* TodoCreate(**payload), schemas.py:18-27 (the fields of TodoBase)
TodoCreate(payload) ==
    model(payload, TodoBase_title(payload.title),
          TodoBase_description(payload.description),
          TodoBase_completed(payload.completed))

\* TodoUpdate(**payload), schemas.py:31-44
TodoUpdate(payload) ==
    model(payload, TodoUpdate_title(payload.title),
          TodoUpdate_description(payload.description),
          TodoUpdate_completed(payload.completed))

\* The strings tried: the lengths around every bound, blank and not.
TitleLens ==
    { 0, TodoBase_title_min_length, TodoBase_title_min_length + 1,
      TodoBase_title_max_length - 1, TodoBase_title_max_length,
      TodoBase_title_max_length + 1 }
DescriptionLens ==
    { 0, 1, TodoBase_description_max_length - 1,
      TodoBase_description_max_length, TodoBase_description_max_length + 1 }
TitleStrs == { Str(n, b) : n \in TitleLens, b \in BOOLEAN } \ { Str(0, FALSE) }
DescriptionStrs == { Str(n, n = 0) : n \in DescriptionLens }

CreatePayloads ==
    [ title : { Missing } \cup TitleStrs,
      description : { Missing, None } \cup DescriptionStrs,
      completed : { Missing, Bool(TRUE), Bool(FALSE) } ]
UpdatePayloads ==
    [ title : { Missing, None } \cup TitleStrs,
      description : { Missing, None } \cup DescriptionStrs,
      completed : { Missing, None, Bool(TRUE), Bool(FALSE) } ]

\* A request body is validated against TodoCreate.
ValidateCreate(payload) ==
    /\ validated' = [ schema |-> "TodoCreate", payload |-> payload,
                      result |-> TodoCreate(payload) ]
    /\ UNCHANGED dbVars

\* A request body is validated against TodoUpdate.
ValidateUpdate(payload) ==
    /\ validated' = [ schema |-> "TodoUpdate", payload |-> payload,
                      result |-> TodoUpdate(payload) ]
    /\ UNCHANGED dbVars

EntryPoints == { "get_db_connection", "get_db" }

NoValidation == [ schema |-> "none" ]

Init ==
    /\ environ \in Settings
    /\ dotenv \in Settings
    /\ SQLITE_DB_PATH = Unset
    /\ module = "unloaded"
    /\ committed = [ x \in Cells |-> 0 ]
    /\ pending = {}
    /\ conns = << >>
    /\ conn = 0
    /\ pc = "idle"
    /\ exc = "None"
    /\ via = "none"
    /\ calls = << >>
    /\ before = [ x \in Cells |-> 0 ]
    /\ wrote = {}
    /\ bodyDone = "none"
    /\ storeErr = "None"
    /\ outcome = "none"
    /\ propagated = "None"
    /\ validated = NoValidation

Next ==
    \/ LoadModule
    \/ \E entry \in EntryPoints : connect(entry)
    \/ \E entry \in EntryPoints, e \in StoreErrors : connect_raises(entry, e)
    \/ \E x \in Cells, v \in Vals : execute(x, v)
    \/ body_returns
    \/ \E e \in StoreErrors \cup OtherErrors : body_raises(e)
    \/ commit
    \/ \E e \in StoreErrors : commit_raises(e)
    \/ except_clause
    \/ finally_clause

Spec == Init /\ [][Next]_vars

InitSchema ==
    /\ Init
    /\ environ = Unset
    /\ dotenv = Unset

NextSchema ==
    \/ \E payload \in CreatePayloads : ValidateCreate(payload)
    \/ \E payload \in UpdatePayloads : ValidateUpdate(payload)

SpecSchema == InitSchema /\ [][NextSchema]_vars

----------------------------------------------------------------------------
(* Properties of the connection scope (checked under Spec) *)

\* The number of calls of op in the log
Count(log, op) == Cardinality({ i \in 1 .. Len(log) : log[i] = op })

\* op1 was called, op2 was called, and the first op1 precedes every op2
Precedes(log, op1, op2) ==
    /\ \E i \in 1 .. Len(log) : log[i] = op1
    /\ \E j \in 1 .. Len(log) : log[j] = op2
    /\ \A i, j \in 1 .. Len(log) :
         (log[i] = op1 /\ log[j] = op2) => i < j

\* A scope that acquired a connection has ended.
ScopeEnded == pc = "idle" /\ outcome # "none" /\ conn # 0

\* The setting the module reads, from the environment and the .env file
Configured == IF environ = Unset THEN dotenv ELSE environ

\* C1: when the body of a scope (of get_db_connection or of get_db)
\* completes without raising, commit is called exactly once on the
\* connection, before close; and when that commit does not raise, the
\* writes of the body are the committed content from then on.
C1_CommitOnceBeforeClose ==
    /\ (bodyDone = "returned" /\ pc \in { "finally", "idle" })
         => Count(calls, "commit") = 1
    /\ (ScopeEnded /\ bodyDone = "returned")
         => Precedes(calls, "commit", "close")
    /\ (ScopeEnded /\ outcome = "returned")
         => /\ bodyDone = "returned"
            /\ committed = view(before, wrote)

C1_Witness ==
    /\ ScopeEnded
    /\ via = "get_db"
    /\ outcome = "returned"
    /\ wrote # {}
    /\ committed # before
    /\ calls = << "commit", "close" >>

\* C2: when a scope ends with an error, of whatever kind, then at the
\* moment the error reaches the caller no write of the scope is pending
\* any more, the committed content is what it was when the scope was
\* entered, and the connection is closed.
C2_RolledBackAndReleasedOnAnyFailure ==
    (ScopeEnded /\ outcome = "raised")
        => /\ propagated # "None"
           /\ pending = {}
           /\ committed = before
           /\ conns[conn] = "closed"
           /\ Count(calls, "close") = 1

C2_Witness ==
    /\ ScopeEnded
    /\ outcome = "raised"
    /\ bodyDone = "raised"
    /\ propagated \in OtherErrors
    /\ wrote # {}
    /\ committed = before

\* C3: every connection acquired is closed exactly once when its scope
\* exits, on every exit path; between scopes no connection is open; close
\* is the last call made on a connection.
C3_GuaranteedRelease ==
    /\ pc = "idle" => \A i \in 1 .. Len(conns) : conns[i] = "closed"
    /\ ScopeEnded => Count(calls, "close") = 1
    /\ Count(calls, "close") <= 1
    /\ \A i \in 1 .. Len(calls) : calls[i] = "close" => i = Len(calls)
    /\ (conn # 0 /\ pc # "idle") => conns[conn] = "open"

C3_Witness ==
    /\ ScopeEnded
    /\ Len(conns) >= 2
    /\ bodyDone = "returned"
    /\ outcome = "raised"
    /\ calls = << "commit", "rollback", "close" >>

\* C4: the committed content changes only in the commit that ends a scope
\* whose body completed; a scope that ended with an error left it as it
\* was when the scope was entered; and what a scope reads is the committed
\* content at its entry overlaid with its own writes, nothing else.
C4_AtomicScopes ==
    /\ [][ committed' # committed
             => /\ pc = "commit"
                /\ bodyDone = "returned"
                /\ pc' = "finally"
                /\ committed' = view(before, wrote) ]_vars
    /\ []( (ScopeEnded /\ outcome = "raised") => committed = before )
    /\ []( pc = "body" => /\ committed = before
                          /\ view(committed, pending) = view(before, wrote) )

C4_Witness ==
    /\ ScopeEnded
    /\ outcome = "raised"
    /\ Cardinality(wrote) = 1
    /\ Len(conns) >= 2
    /\ committed = before
    /\ \E x \in Cells : committed[x] # 0

\* C5: a store error raised inside a scope, by the body or by the commit,
\* stays in flight until the scope ends; the scope rolls back first, and
\* ends by raising that same error to its caller, never normally.
C5_StoreErrorPropagatesAfterRollback ==
    /\ (storeErr # "None" /\ pc \in { "except", "finally" }) => exc = storeErr
    /\ (storeErr # "None" /\ pc = "finally")
         => Count(calls, "rollback") = 1
    /\ (storeErr # "None" /\ ScopeEnded)
         => /\ outcome = "raised"
            /\ propagated = storeErr
            /\ Precedes(calls, "rollback", "close")

C5_Witness ==
    /\ ScopeEnded
    /\ bodyDone = "returned"
    /\ storeErr = "OperationalError"
    /\ propagated = storeErr
    /\ wrote # {}

\* C6: loading the module succeeds exactly when the configured setting is
\* set, not empty and names an existing path, and aborts with an error
\* otherwise; a connection is attempted only after a successful load.
C6_FailFastStartup ==
    /\ module # "unloaded"
         => /\ module = "loaded"
                 <=> (Configured \notin { Unset, "" } /\ Configured = "todo.db")
            /\ module = "ValueError" <=> Configured \in { Unset, "" }
            /\ module = "FileNotFoundError" <=> Configured = "gone.db"
    /\ (pc # "idle" \/ conns # << >> \/ via # "none")
         => /\ module = "loaded"
            /\ SQLITE_DB_PATH = "todo.db"

C6_Witness ==
    /\ module = "FileNotFoundError"
    /\ environ = Unset
    /\ dotenv = "gone.db"
    /\ conns = << >>
    /\ pc = "idle"

----------------------------------------------------------------------------
(* Properties of the schemas (checked under SpecSchema) *)

IsStr(v) == v.kind = "str"

\* C7: a create payload is accepted if and only if title is present with a
\* length from 1 to 500 and description, when a string was supplied, has
\* a length of at most 2000.
C7_CreateValidation ==
    validated.schema = "TodoCreate" =>
        LET t == validated.payload.title
            d == validated.payload.description
        IN validated.result.ok
             <=> /\ IsStr(t)
                 /\ 1 <= t.len
                 /\ t.len <= 500
                 /\ IsStr(d) => d.len <= 2000

C7_Witness ==
    /\ validated.schema = "TodoCreate"
    /\ validated.result.ok
    /\ validated.payload.title = Str(500, FALSE)
    /\ validated.payload.description = Str(2000, FALSE)

\* C8: no payload accepted by TodoCreate or TodoUpdate with a title
\* supplied carries a title that is empty or whitespace only.
C8_TitleNeverBlank ==
    ( /\ validated.schema \in { "TodoCreate", "TodoUpdate" }
      /\ validated.result.ok
      /\ IsStr(validated.payload.title) )
        => ~validated.result.title.blank

\* C9: an update payload is rejected exactly when a supplied title is empty
\* or longer than 500 or a supplied description is longer than 2000; an
\* accepted one records exactly the supplied fields as set, keeps their
\* values, and holds None, not a default value, for every other field.
C9_UpdateValidation ==
    validated.schema = "TodoUpdate" =>
        LET p == validated.payload
            r == validated.result
        IN /\ ~r.ok <=> \/ IsStr(p.title) /\ (p.title.len = 0 \/ p.title.len > 500)
                        \/ IsStr(p.description) /\ p.description.len > 2000
           /\ r.ok => /\ r.fields_set = { f \in FieldNames : p[f] # Missing }
                      /\ \A f \in FieldNames :
                           r[f] = IF p[f] = Missing THEN None ELSE p[f]

C9_Witness ==
    /\ validated.schema = "TodoUpdate"
    /\ validated.result.ok
    /\ validated.payload.title = Missing
    /\ validated.payload.description = Missing
    /\ validated.payload.completed = Bool(TRUE)
    /\ validated.result.fields_set = { "completed" }
    /\ validated.result.title = None
    /\ validated.result.description = None

\* C10: for every accepted create payload description is a string and
\* completed is a boolean; description not supplied is the empty string
\* and completed not supplied is false.
C10_CreateDefaults ==
    (validated.schema = "TodoCreate" /\ validated.result.ok) =>
        LET p == validated.payload
            r == validated.result
        IN /\ IsStr(r.description)
           /\ r.completed.kind = "bool"
           /\ p.description = Missing => (r.description.len = 0)
           /\ p.completed = Missing => (r.completed = Bool(FALSE))

====
